---- MODULE Spec2Model ----
(***************************************************************************)
(* UsageLogPanel (src/src/components/usage/UsageLogPanel.tsx) and the      *)
(* usageLogApi wrapper it calls (src/unnamed/part_000).                    *)
(*                                                                         *)
(* Spec         the mounted component: props, memoised credential and base *)
(*              URL, the four useState cells, and the fetch pairs in       *)
(*              flight.                                                    *)
(* SpecExtract  extractApiKey / extractWebsiteUrl applied to every         *)
(*              provider shape of AllProviders.                            *)
(* SpecUsage    the render-time derivation allModels -> models ->          *)
(*              periodUsage applied to every per-model result of           *)
(*              AllModelStats.                                             *)
(* SpecProgress calcProgress applied to every pair of ProgressArgs.        *)
(* SpecCard     the cost rows of the limits card, rendered from every      *)
(*              overview result of CardResults and per-model result.       *)
(*                                                                         *)
(* Strings the code inspects (trim, toLowerCase, includes) are sequences   *)
(* of one-character strings.  JavaScript values are records tagged by      *)
(* their typeof-relevant kind.                                             *)
(***************************************************************************)
EXTENDS Integers, Sequences, FiniteSets, TLC

VARIABLES
    currentProvider, appId,               \* props
    apiKey, baseUrl, thrown,              \* useMemo cells; thrown: a render raised
    isLoading, result, modelStats, period, \* useState cells
    inflight,                             \* fetch pairs whose Promise.all is pending
    issued, lastApplied,                  \* pairs issued so far; id of the pair applied last
    mounted,                              \* the first render and its effect have run
    completedSinceEffect,                 \* a pair completed after the effect last ran
    models, periodUsage,                  \* render-time derived values (SpecUsage)
    allModelsCost, limitsCard,            \* render-time cost sum and limits card
    progress                              \* a call of calcProgress and its value

vars == <<currentProvider, appId, apiKey, baseUrl, thrown, isLoading, result,
          modelStats, period, inflight, issued, lastApplied, mounted,
          completedSinceEffect, models, periodUsage,
                   allModelsCost, limitsCard, progress>>

(***************************************************************************)
(* Bounds                                                                  *)
(***************************************************************************)
\* Fetch pairs issued in one behaviour.
MaxIssued == 2
\* Items in a per-model result.
MaxModels == 3
\* Bits of the significand of a number (53 in an IEEE-754 double): sums are
\* rounded to this many significant bits, to nearest, ties to even.
MantissaBits == 3

(***************************************************************************)
(* JavaScript values                                                       *)
(***************************************************************************)
NULL == [t |-> "null"]
Undefined == [t |-> "undefined"]
Num(n) == [t |-> "number", v |-> n]
StrV(s) == [t |-> "string", v |-> s]
\* An object: its own properties as <<name, value>> pairs.
Obj(pairs) == [t |-> "object", f |-> {p \in pairs : p[2] # Undefined}]
EmptyObj == Obj({})

Nullish(v) == v.t \in {"null", "undefined"}

\* o.name on a value that is not null or undefined (on those it is a
\* TypeError, see ReadKey); a primitive has no own property.
Get(o, name) ==
    IF o.t = "object" /\ \E p \in o.f : p[1] = name
    THEN (CHOOSE p \in o.f : p[1] = name)[2]
    ELSE Undefined

\* o?.name
OptGet(o, name) == IF Nullish(o) THEN Undefined ELSE Get(o, name)

\* a ?? b
Coalesce(a, b) == IF Nullish(a) THEN b ELSE a

\* typeof v === "string" ? v : ""
TextOrEmpty(v) == IF v.t = "string" THEN v.v ELSE <<>>

(***************************************************************************)
(* Strings                                                                 *)
(***************************************************************************)
WhiteSpace == {" "}

RECURSIVE TrimStart(_)
TrimStart(s) ==
    IF s # <<>> /\ Head(s) \in WhiteSpace THEN TrimStart(Tail(s)) ELSE s

RECURSIVE TrimEnd(_)
TrimEnd(s) ==
    IF s # <<>> /\ s[Len(s)] \in WhiteSpace
    THEN TrimEnd(SubSeq(s, 1, Len(s) - 1))
    ELSE s

\* String.prototype.trim
Trim(s) == TrimEnd(TrimStart(s))

DEFAULT_BASE_URL ==
    <<"h","t","t","p","s",":","/","/","c","l","a","u","d","e",".",
      "k","u","n","8",".","v","i","p">>

(***************************************************************************)
(* Provider settings payloads                                              *)
(***************************************************************************)
\* settingsConfig held as text: JSON text of a value, malformed text, or "".
TextOf(v) == [t |-> "text", empty |-> FALSE, ok |-> TRUE, value |-> v]
BadText == [t |-> "text", empty |-> FALSE, ok |-> FALSE, value |-> NULL]
EmptyText == [t |-> "text", empty |-> TRUE, ok |-> FALSE, value |-> NULL]

\* JavaScript truthiness of a settingsConfig / websiteUrl / string cell.
Truthy(v) ==
    CASE v.t \in {"null", "undefined"} -> FALSE
      [] v.t = "text" -> ~v.empty
      [] v.t = "string" -> v.v # <<>>
      [] v.t = "number" -> v.v # 0
      [] OTHER -> TRUE

Return(v) == [kind |-> "return", value |-> v]
Throw == [kind |-> "throw", value |-> NULL]

\* JSON.parse: the encoded value, or a SyntaxError.
JSONParse(text) == IF text.ok THEN Return(text.value) ELSE Throw

Provider(sc, url) == [t |-> "provider", settingsConfig |-> sc, websiteUrl |-> url]

\* ReadKey with the claude-like branch written as token || apiKey: an empty
\* ANTHROPIC_AUTH_TOKEN falls through to ANTHROPIC_API_KEY.
ReadKeyEmptyTokenFallsThrough(config, app) ==
    LET env == Coalesce(OptGet(config, "env"), EmptyObj) IN
    IF Nullish(env) THEN Throw
    ELSE IF app = "gemini" THEN Return(TextOrEmpty(Get(env, "GEMINI_API_KEY")))
    ELSE IF app = "codex"
    THEN LET auth == Coalesce(OptGet(config, "auth"), EmptyObj) IN
         IF Nullish(auth) THEN Throw
         ELSE Return(TextOrEmpty(Get(auth, "OPENAI_API_KEY")))
    ELSE LET token == Get(env, "ANTHROPIC_AUTH_TOKEN")
             key == Get(env, "ANTHROPIC_API_KEY") IN
         Return(IF token.t = "string" /\ token.v # <<>> THEN token.v
                ELSE IF key.t = "string" THEN key.v
                ELSE <<>>)

\* The try block of extractApiKey after parsing: Return(string), or Throw
\* where a property of null/undefined would be read.
ReadKey(config, app) ==
    LET env == Coalesce(OptGet(config, "env"), EmptyObj) IN
    IF Nullish(env) THEN Throw
    ELSE IF app = "gemini" THEN Return(TextOrEmpty(Get(env, "GEMINI_API_KEY")))
    ELSE IF app = "codex"
    THEN LET auth == Coalesce(OptGet(config, "auth"), EmptyObj) IN
         IF Nullish(auth) THEN Throw
         ELSE Return(TextOrEmpty(Get(auth, "OPENAI_API_KEY")))
    ELSE LET token == Get(env, "ANTHROPIC_AUTH_TOKEN")
             key == Get(env, "ANTHROPIC_API_KEY") IN
         Return(IF token.t = "string" THEN token.v
                ELSE IF key.t = "string" THEN key.v
                ELSE <<>>)

\* The try block: JSON.parse of a text payload, then the reads.
TryBlock(sc, app) ==
    LET parsed == IF sc.t = "text" THEN JSONParse(sc) ELSE Return(sc) IN
    IF parsed.kind = "throw" THEN Throw ELSE ReadKey(parsed.value, app)

\* extractApiKey without its try/catch.
extractApiKeyNoCatch(provider, app) ==
    IF Nullish(provider) \/ ~Truthy(provider.settingsConfig) THEN Return(<<>>)
    ELSE TryBlock(provider.settingsConfig, app)

\* extractApiKey: Return(string), or Throw if an exception escaped it.
extractApiKey(provider, app) ==
    IF Nullish(provider) \/ ~Truthy(provider.settingsConfig) THEN Return(<<>>)
    ELSE LET tried == TryBlock(provider.settingsConfig, app) IN
         IF tried.kind = "throw" THEN Return(<<>>) ELSE tried

extractWebsiteUrlUntrimmed(provider) ==
    IF Nullish(provider) \/ ~Truthy(provider.websiteUrl) THEN DEFAULT_BASE_URL
    ELSE provider.websiteUrl.v

extractWebsiteUrl(provider) ==
    IF Nullish(provider) \/ ~Truthy(provider.websiteUrl) THEN DEFAULT_BASE_URL
    ELSE LET trimmed == Trim(provider.websiteUrl.v) IN
         IF trimmed # <<>> THEN trimmed ELSE DEFAULT_BASE_URL

(***************************************************************************)
(* Values the component is driven with                                     *)
(***************************************************************************)
AppIds == {"claude", "codex", "gemini", "other"}
Periods == {"daily", "monthly"}

KeyK == <<"k">>
Blank == <<" ">>
UrlU == <<"u">>

\* The providers the mounted component is switched between.
PanelProviders ==
    { NULL,
      Provider(Obj({<<"env", Obj({<<"ANTHROPIC_AUTH_TOKEN", StrV(KeyK)>>})>>,
                    <<"auth", Obj({<<"OPENAI_API_KEY", StrV(Blank)>>})>>}),
               Undefined),
      Provider(TextOf(Obj({<<"env", Obj({<<"ANTHROPIC_API_KEY", StrV(KeyK)>>})>>})),
               StrV(<<" ", "u", " ">>)) }
PanelAppIds == {"claude", "codex"}

(***************************************************************************)
(* usageLogApi                                                             *)
(***************************************************************************)
\* The arguments handed to invoke().
InvokeArgs(command, key, url, p) ==
    [command |-> command,
     apiKey |-> key,
     baseUrl |-> IF url # <<>> THEN StrV(url) ELSE NULL,
     period |-> IF p # "" THEN p ELSE "daily"]

Resolve(v) == [kind |-> "resolve", value |-> v, error |-> ""]
Reject(e) == [kind |-> "reject", value |-> NULL, error |-> e]

Success(args) == [success |-> TRUE, data |-> args, error |-> ""]
Failure(e) == [success |-> FALSE, data |-> NULL, error |-> e]

\* What the backend command may do with a call: answer for the request,
\* answer success=false, or reject.
InvokeOutcomes(args) ==
    { Resolve(Success(args)), Resolve(Failure("denied")), Reject("network") }

\* usageLogApi.query / usageLogApi.queryModelStats: the promise each returns,
\* given what invoke() did.
usageLogApi_query(outcome) ==
    IF outcome.kind = "reject" THEN Resolve(Failure(outcome.error)) ELSE outcome

usageLogApi_queryModelStats(outcome) ==
    IF outcome.kind = "reject" THEN Resolve(Failure(outcome.error)) ELSE outcome

\* Promise.all of the two promises.
PromiseAll(a, b) ==
    IF a.kind = "reject" THEN Reject(a.error)
    ELSE IF b.kind = "reject" THEN Reject(b.error)
    ELSE Resolve(<<a.value, b.value>>)

(***************************************************************************)
(* The component                                                           *)
(***************************************************************************)
NotRendered == [t |-> "notRendered"]

\* The cells of a component that has been constructed and not yet rendered.
Constructed ==
    /\ apiKey = <<>>
    /\ baseUrl = <<>>
    /\ thrown = FALSE
    /\ isLoading = FALSE
    /\ result = NULL
    /\ period = "daily"
    /\ inflight = {}
    /\ issued = 0
    /\ lastApplied = 0
    /\ mounted = FALSE
    /\ completedSinceEffect = FALSE
    /\ models = NotRendered
    /\ periodUsage = NotRendered
    /\ allModelsCost = NotRendered
    /\ limitsCard = NotRendered
    /\ progress = NotRendered

Init ==
    /\ currentProvider \in PanelProviders
    /\ appId \in PanelAppIds
    /\ modelStats = NULL
    /\ Constructed

\* The pair of calls one Promise.all([...]) waits for.
FetchPair(id, qKey, qUrl, qPeriod, sKey, sUrl, sPeriod) ==
    [id |-> id,
     query |-> InvokeArgs("query_api_usage", qKey, qUrl, qPeriod),
     stats |-> InvokeArgs("query_model_stats", sKey, sUrl, sPeriod)]

\* IssuePair with the per-model call reading the period state cell, not the
\* period the handler was given.
IssuePairStalePeriod(key, url, p) ==
    /\ isLoading' = TRUE
    /\ inflight' = inflight \cup {FetchPair(issued + 1, key, url, p, key, url, period)}
    /\ issued' = issued + 1
    /\ UNCHANGED <<result, modelStats>>

\* setIsLoading(true); Promise.all([query(...), queryModelStats(...)])
IssuePair(key, url, p) ==
    /\ isLoading' = TRUE
    /\ inflight' = inflight \cup {FetchPair(issued + 1, key, url, p, key, url, p)}
    /\ issued' = issued + 1
    /\ UNCHANGED <<result, modelStats>>

\* handleQuery up to its await, in a render whose closure holds key, url, p.
handleQuery(key, url, p) ==
    IF Trim(key) = <<>>
    THEN UNCHANGED <<isLoading, result, modelStats, inflight, issued>>
    ELSE IssuePair(key, url, p)

\* Effect whose else branch forgets setModelStats(null).
EffectKeepsStats(key, url) ==
    IF key # <<>>
    THEN handleQuery(key, url, period)
    ELSE /\ result' = NULL
         /\ UNCHANGED <<modelStats, isLoading, inflight, issued>>

\* The body of useEffect(..., [apiKey, baseUrl]).
Effect(key, url) ==
    IF key # <<>>
    THEN handleQuery(key, url, period)
    ELSE /\ result' = NULL
         /\ modelStats' = NULL
         /\ UNCHANGED <<isLoading, inflight, issued>>

\* Whether running the effect with this credential issues a pair.
EffectIssues(key) == key # <<>> /\ Trim(key) # <<>>

\* First render and the effect that follows it.
Mount ==
    /\ ~mounted
    /\ LET key == extractApiKey(currentProvider, appId)
           url == extractWebsiteUrl(currentProvider) IN
       /\ apiKey' = key.value
       /\ thrown' = (key.kind = "throw")
       /\ baseUrl' = url
       /\ Effect(key.value, url)
    /\ mounted' = TRUE
    /\ UNCHANGED <<currentProvider, appId, period, lastApplied,
                   completedSinceEffect, models, periodUsage,
                   allModelsCost, limitsCard, progress>>

\* The parent passes new props; the effect runs if apiKey or baseUrl changed.
SetProps(provider, app) ==
    /\ mounted
    /\ <<provider, app>> # <<currentProvider, appId>>
    /\ LET key == extractApiKey(provider, app)
           url == extractWebsiteUrl(provider) IN
       /\ (EffectIssues(key.value) /\ <<key.value, url>> # <<apiKey, baseUrl>>)
              => issued < MaxIssued
       /\ currentProvider' = provider
       /\ appId' = app
       /\ apiKey' = key.value
       /\ thrown' = (key.kind = "throw")
       /\ baseUrl' = url
       /\ IF <<key.value, url>> # <<apiKey, baseUrl>>
          THEN Effect(key.value, url) /\ completedSinceEffect' = FALSE
          ELSE UNCHANGED <<isLoading, result, modelStats, inflight, issued,
                           completedSinceEffect>>
    /\ UNCHANGED <<period, lastApplied, mounted, models, periodUsage,
                   allModelsCost, limitsCard, progress>>

\* ref.refresh(), and the retry button of the error view.
Refresh ==
    /\ mounted
    /\ Trim(apiKey) # <<>> => issued < MaxIssued
    /\ handleQuery(apiKey, baseUrl, period)
    /\ UNCHANGED <<currentProvider, appId, apiKey, baseUrl, thrown, period,
                   lastApplied, mounted, completedSinceEffect, models, periodUsage,
                   allModelsCost, limitsCard, progress>>

\* ref.setPeriod(newPeriod)
handlePeriodChange(newPeriod) ==
    /\ mounted
    /\ apiKey # <<>> => issued < MaxIssued
    /\ period' = newPeriod
    /\ IF apiKey # <<>>
       THEN IssuePair(apiKey, baseUrl, newPeriod)
       ELSE UNCHANGED <<isLoading, result, modelStats, inflight, issued>>
    /\ UNCHANGED <<currentProvider, appId, apiKey, baseUrl, thrown,
                   lastApplied, mounted, completedSinceEffect, models, periodUsage,
                   allModelsCost, limitsCard, progress>>

\* Settled with setIsLoading(false) at the end of the then branch instead of
\* in finally: a pair whose overview failed leaves isLoading as it was.
SettledClearsLoadingOnSuccessOnly(all) ==
    /\ IF all.kind = "resolve"
       THEN /\ result' = all.value[1]
            /\ modelStats' = all.value[2]
       ELSE /\ result' = Failure(all.error)
            /\ modelStats' = NULL
    /\ isLoading' = IF all.kind = "resolve" /\ all.value[1].success
                    THEN FALSE ELSE isLoading

\* What the continuation of a settled Promise.all stores: then / catch, finally.
Settled(all) ==
    /\ IF all.kind = "resolve"
       THEN /\ result' = all.value[1]
            /\ modelStats' = all.value[2]
       ELSE /\ result' = Failure(all.error)
            /\ modelStats' = NULL
    /\ isLoading' = FALSE

\* PairCompletes with a request-generation check: the continuation of a pair
\* that is not the latest one issued stores nothing.
PairCompletesLatestOnly(pair, overview, stats) ==
    /\ pair \in inflight
    /\ IF pair.id = issued
       THEN Settled(PromiseAll(usageLogApi_query(overview),
                               usageLogApi_queryModelStats(stats)))
       ELSE UNCHANGED <<result, modelStats, isLoading>>
    /\ inflight' = inflight \ {pair}
    /\ lastApplied' = IF pair.id = issued THEN pair.id ELSE lastApplied
    /\ completedSinceEffect' = TRUE
    /\ UNCHANGED <<currentProvider, appId, apiKey, baseUrl, thrown, period,
                   issued, mounted, models, periodUsage,
                   allModelsCost, limitsCard, progress>>

\* Both invoke() calls of a pair have settled and its continuation runs.
PairCompletes(pair, overview, stats) ==
    /\ pair \in inflight
    /\ Settled(PromiseAll(usageLogApi_query(overview),
                          usageLogApi_queryModelStats(stats)))
    /\ inflight' = inflight \ {pair}
    /\ lastApplied' = pair.id
    /\ completedSinceEffect' = TRUE
    /\ UNCHANGED <<currentProvider, appId, apiKey, baseUrl, thrown, period,
                   issued, mounted, models, periodUsage,
                   allModelsCost, limitsCard, progress>>

Next ==
    \/ Mount
    \/ \E provider \in PanelProviders, app \in PanelAppIds : SetProps(provider, app)
    \/ Refresh
    \/ \E newPeriod \in Periods : handlePeriodChange(newPeriod)
    \/ \E pair \in inflight :
          \E overview \in InvokeOutcomes(pair.query), stats \in InvokeOutcomes(pair.stats) :
              PairCompletes(pair, overview, stats)

Spec == Init /\ [][Next]_vars

(***************************************************************************)
(* The views the render shows                                              *)
(***************************************************************************)
LoadingView == isLoading
ErrorView == ~isLoading /\ result # NULL /\ ~result.success
NotConfiguredView == ~isLoading /\ result = NULL /\ apiKey = <<>>
DataView == ~isLoading /\ result # NULL /\ result.success /\ result.data # NULL

(***************************************************************************)
(* Properties of the mounted component                                     *)
(***************************************************************************)
BothAbsent == result = NULL /\ modelStats = NULL

\* C1: the join is all-or-nothing.  The held results are both absent, or a
\* failed overview carrying an error message with the per-model stats absent,
\* or the two successes of one pair; the data view is never shown next to a
\* failed per-model result.
C1_AllOrNothing ==
    /\ \/ BothAbsent
       \/ /\ result # NULL /\ ~result.success /\ result.error # ""
          /\ modelStats = NULL
       \/ /\ result # NULL /\ result.success
          /\ modelStats # NULL /\ modelStats.success
    /\ DataView => (modelStats # NULL /\ modelStats.success)

\* What the overview / per-model call of a pair can deliver to the component.
Deliverable(args) == {Success(args), Failure("denied"), Failure("network")}

\* C2: a pair is never cancelled and carries no generation tag.  A pair
\* leaves the set of pending pairs only in a step that issues nothing and
\* removes nothing else, and that step stores the pair's own two results and
\* clears isLoading, whatever has been issued since.
C2_NoCancelNoTag ==
    [][\A pair \in inflight :
          pair \notin inflight' =>
              /\ issued' = issued
              /\ inflight' = inflight \ {pair}
              /\ result' \in Deliverable(pair.query)
              /\ modelStats' \in Deliverable(pair.stats)
              /\ isLoading' = FALSE]_vars

\* C2 witness: nothing is in flight, the pair applied last was issued before
\* another pair, and the held results answer a period other than the
\* selected one.
C2_StaleOverwrite ==
    /\ inflight = {}
    /\ lastApplied # 0 /\ lastApplied < issued
    /\ Trim(apiKey) # <<>>
    /\ result # NULL /\ result.success
    /\ modelStats # NULL /\ modelStats.success
    /\ result.data.period # period
    /\ modelStats.data.period # period

NotConfiguredOnly ==
    /\ BothAbsent
    /\ NotConfiguredView /\ ~ErrorView /\ ~DataView

\* C3 as claimed: with an empty credential and nothing in flight the results
\* are absent and only the "not configured" view shows.
C3_NotConfiguredClean ==
    (mounted /\ apiKey = <<>> /\ inflight = {}) => NotConfiguredOnly

\* C3 as amended: the same, provided no pair has completed since the effect
\* last ran (none was still in flight when the credential became empty).
C3_CleanUnlessLateCompletion ==
    (mounted /\ apiKey = <<>> /\ inflight = {} /\ ~completedSinceEffect)
        => NotConfiguredOnly

\* C3 witness: the credential became empty after a pair had delivered its
\* results, and the effect cleared them.
C3_ClearedAfterData ==
    /\ mounted /\ apiKey = <<>> /\ inflight = {} /\ ~completedSinceEffect
    /\ lastApplied # 0
    /\ BothAbsent

\* This step issues exactly one pair, both calls with key, url and p.
IssuesOnePair(key, url, p) ==
    /\ issued' = issued + 1
    /\ \E pair \in inflight' :
          /\ pair \notin inflight
          /\ inflight' = inflight \cup {pair}
          /\ pair.query = InvokeArgs("query_api_usage", key, url, p)
          /\ pair.stats = InvokeArgs("query_model_stats", key, url, p)

CredentialOrBaseUrlChange == mounted /\ <<apiKey', baseUrl'>> # <<apiKey, baseUrl>>

\* A step that completes a pair issues none (no retry, no backoff).
NoAutomaticFetch == (\E pair \in inflight : pair \notin inflight') => issued' = issued

\* C4 as claimed: with a non-empty credential every credential change,
\* base-URL change and period selection issues exactly one pair for the
\* credential, base URL and period now current; a completion issues none.
C4_ReinvocationNonEmpty ==
    [][/\ (CredentialOrBaseUrlChange /\ apiKey' # <<>>)
            => IssuesOnePair(apiKey', baseUrl', period')
       /\ \A newPeriod \in Periods :
            (handlePeriodChange(newPeriod) /\ apiKey # <<>>)
                => IssuesOnePair(apiKey, baseUrl, newPeriod)
       /\ NoAutomaticFetch]_vars

\* C4 as amended: the same for a credential that is non-empty after trimming.
C4_ReinvocationNonBlank ==
    [][/\ (CredentialOrBaseUrlChange /\ Trim(apiKey') # <<>>)
            => IssuesOnePair(apiKey', baseUrl', period')
       /\ \A newPeriod \in Periods :
            (handlePeriodChange(newPeriod) /\ Trim(apiKey) # <<>>)
                => IssuesOnePair(apiKey, baseUrl, newPeriod)
       /\ NoAutomaticFetch]_vars

\* C4 witness: a pair for the newly selected period is in flight beside the
\* pair of the initial fetch.
C4_PairForNewPeriod ==
    /\ period = "monthly"
    /\ Trim(apiKey) # <<>>
    /\ \E pair \in inflight :
          /\ pair.id = 2
          /\ pair.query = InvokeArgs("query_api_usage", apiKey, baseUrl, "monthly")
          /\ pair.stats = InvokeArgs("query_model_stats", apiKey, baseUrl, "monthly")
    /\ \E pair \in inflight : pair.id = 1 /\ pair.query.period = "daily"

\* C14: isLoading is true whenever a fetch pair is in flight.
C14_LoadingWhileInFlight == inflight # {} => isLoading

\* C15 as claimed: once every issued pair has completed isLoading is false,
\* whether the pairs succeeded or failed, and the overview result is held if
\* the credential is non-empty.
C15_LoadingNeverStuck ==
    (mounted /\ inflight = {}) =>
        /\ ~isLoading
        /\ apiKey # <<>> => result # NULL

\* C15 as amended: the same, the overview result being held if the
\* credential is non-empty after trimming.
C15_LoadingNeverStuckNonBlank ==
    (mounted /\ inflight = {}) =>
        /\ ~isLoading
        /\ Trim(apiKey) # <<>> => result # NULL

\* C15 witness: two pairs were issued, both have completed, the one applied
\* last on the failure path, and the loading view is gone.
C15_AllCompletedAfterFailure ==
    /\ mounted /\ inflight = {}
    /\ issued = 2
    /\ Trim(apiKey) # <<>>
    /\ result # NULL /\ ~result.success
    /\ ~isLoading

NonBlankCredential(pair) ==
    /\ Trim(pair.query.apiKey) # <<>>
    /\ Trim(pair.stats.apiKey) # <<>>

\* C16: no call is ever issued with an empty or whitespace-only credential,
\* and a refresh with such a credential leaves isLoading, result and
\* modelStats unchanged.
C16_NoBlankCredentialSent ==
    [][/\ \A pair \in inflight' : NonBlankCredential(pair)
       /\ (Refresh /\ Trim(apiKey) = <<>>)
             => UNCHANGED <<isLoading, result, modelStats>>]_vars

(***************************************************************************)
(* extractApiKey / extractWebsiteUrl on every provider shape               *)
(***************************************************************************)
\* A property that is missing, non-text, the empty text, or a key.
FieldValues(key) == {Undefined, Num(42), StrV(<<>>), StrV(key)}

EnvObjects ==
    { Obj({<<"GEMINI_API_KEY", g>>, <<"ANTHROPIC_AUTH_TOKEN", t>>,
           <<"ANTHROPIC_API_KEY", a>>}) :
        g \in FieldValues(<<"g">>), t \in FieldValues(<<"t">>),
        a \in FieldValues(<<"a">>) }
EnvValues == EnvObjects \cup {Undefined, NULL, StrV(<<"x">>)}

AuthValues ==
    { Obj({<<"OPENAI_API_KEY", o>>}) : o \in FieldValues(<<"o">>) }
        \cup {Undefined, NULL}

\* The values a settings payload can hold or encode.
ConfigValues ==
    { Obj({<<"env", e>>, <<"auth", a>>}) : e \in EnvValues, a \in AuthValues }
        \cup {NULL, Num(7), StrV(<<"x">>)}

SettingsConfigs ==
    {Undefined, EmptyText, BadText}
        \cup { TextOf(v) : v \in ConfigValues }
        \cup { v \in ConfigValues : v.t # "string" }

WebsiteUrls ==
    {Undefined, StrV(<<>>), StrV(<<" ">>), StrV(<<" ", " ">>), StrV(UrlU),
     StrV(<<" ", "u", " ">>), StrV(<<"u", " ", "u", " ">>)}

AllProviders ==
    {NULL}
        \cup { Provider(sc, Undefined) : sc \in SettingsConfigs }
        \cup { Provider(Undefined, url) : url \in WebsiteUrls }

InitExtract ==
    /\ currentProvider \in AllProviders
    /\ appId \in AppIds
    /\ modelStats = NULL
    /\ Constructed

\* The two useMemo computations of a render.
RenderMemo ==
    /\ baseUrl = <<>>
    /\ LET key == extractApiKey(currentProvider, appId) IN
       /\ apiKey' = key.value
       /\ thrown' = (key.kind = "throw")
    /\ baseUrl' = extractWebsiteUrl(currentProvider)
    /\ UNCHANGED <<currentProvider, appId, isLoading, result, modelStats, period,
                   inflight, issued, lastApplied, mounted, completedSinceEffect,
                   models, periodUsage,
                   allModelsCost, limitsCard, progress>>

NextExtract == RenderMemo

SpecExtract == InitExtract /\ [][NextExtract]_vars

MemoComputed == baseUrl # <<>>

\* The value settingsConfig holds or encodes; Undefined if there is none.
ConfigOf(provider) ==
    IF provider = NULL THEN Undefined
    ELSE LET sc == provider.settingsConfig IN
         IF sc.t = "text"
         THEN IF ~sc.empty /\ sc.ok THEN sc.value ELSE Undefined
         ELSE sc

\* config.<section>.<name>; Undefined where a link of the path is missing.
FieldAt(provider, section, name) ==
    LET holders == { p[2] : p \in { q \in (IF ConfigOf(provider).t = "object"
                                            THEN ConfigOf(provider).f ELSE {}) :
                                     q[1] = section } }
        fields == UNION { IF h.t = "object" THEN {q \in h.f : q[1] = name} ELSE {}
                          : h \in holders }
    IN IF fields = {} THEN Undefined ELSE (CHOOSE q \in fields : TRUE)[2]

IsText(v) == v.t = "string"

\* The reference of C5.
ReferenceKey(provider, app) ==
    LET gemini == FieldAt(provider, "env", "GEMINI_API_KEY")
        openai == FieldAt(provider, "auth", "OPENAI_API_KEY")
        token == FieldAt(provider, "env", "ANTHROPIC_AUTH_TOKEN")
        key == FieldAt(provider, "env", "ANTHROPIC_API_KEY")
    IN CASE app = "gemini" -> IF IsText(gemini) THEN gemini.v ELSE <<>>
         [] app = "codex" -> IF IsText(openai) THEN openai.v ELSE <<>>
         [] OTHER -> IF IsText(token) THEN token.v
                     ELSE IF IsText(key) THEN key.v
                     ELSE <<>>

\* The fields extractApiKey is to consult for an app kind.
Consulted(provider, app) ==
    CASE app = "gemini" -> {FieldAt(provider, "env", "GEMINI_API_KEY")}
      [] app = "codex" -> {FieldAt(provider, "auth", "OPENAI_API_KEY")}
      [] OTHER -> {FieldAt(provider, "env", "ANTHROPIC_AUTH_TOKEN"),
                   FieldAt(provider, "env", "ANTHROPIC_API_KEY")}

\* C5: extractApiKey agrees with the reference for every provider and app
\* kind, and yields "" when no consulted field is text, whatever the keys of
\* the other app kinds.
C5_ExtractAgreesWithReference ==
    MemoComputed =>
        /\ ~thrown
        /\ apiKey = ReferenceKey(currentProvider, appId)
        /\ (\A v \in Consulted(currentProvider, appId) : ~IsText(v)) => apiKey = <<>>

\* C5 witness: a claude-like app, ANTHROPIC_AUTH_TOKEN the empty text,
\* ANTHROPIC_API_KEY and GEMINI_API_KEY set: the result is the empty token.
C5_EmptyTokenWins ==
    /\ MemoComputed
    /\ appId = "other"
    /\ FieldAt(currentProvider, "env", "ANTHROPIC_AUTH_TOKEN") = StrV(<<>>)
    /\ FieldAt(currentProvider, "env", "ANTHROPIC_API_KEY") = StrV(<<"a">>)
    /\ FieldAt(currentProvider, "env", "GEMINI_API_KEY") = StrV(<<"g">>)
    /\ apiKey = <<>>

KeyChars == {"g", "t", "a", "o", "x", "k", " "}

\* C6: extractApiKey never raises and always returns a string; it returns ""
\* for a null provider, a missing settingsConfig and text that fails to parse.
C6_ExtractTotal ==
    MemoComputed =>
        /\ ~thrown
        /\ apiKey \in Seq(KeyChars)
        /\ (currentProvider = NULL \/ ~Truthy(currentProvider.settingsConfig))
              => apiKey = <<>>
        /\ (currentProvider # NULL /\ currentProvider.settingsConfig = BadText)
              => apiKey = <<>>

\* C6 witness: the payload is text that fails to parse, and "" was returned.
C6_MalformedTextGivesEmpty ==
    /\ MemoComputed
    /\ currentProvider # NULL
    /\ currentProvider.settingsConfig = BadText
    /\ ~thrown
    /\ apiKey = <<>>

\* The positions of s that hold a character other than white space.
Inked(s) == { i \in 1..Len(s) : s[i] \notin WhiteSpace }

\* s from its first to its last character that is not white space.
Stripped(s) ==
    IF Inked(s) = {} THEN <<>>
    ELSE LET first == CHOOSE i \in Inked(s) : \A j \in Inked(s) : i <= j
             last == CHOOSE i \in Inked(s) : \A j \in Inked(s) : j <= i
         IN [k \in 1..(last - first + 1) |-> s[first + k - 1]]

\* The provider has no websiteUrl, or one that is empty or only white space.
NoWebsiteUrl(provider) ==
    \/ provider = NULL
    \/ provider.websiteUrl.t # "string"
    \/ Inked(provider.websiteUrl.v) = {}

RECURSIVE TwoTo(_)
TwoTo(n) == IF n = 0 THEN 1 ELSE 2 * TwoTo(n - 1)

\* The binary digits of n beyond the significand.
RECURSIVE ExcessBits(_)
ExcessBits(n) == IF n < TwoTo(MantissaBits) THEN 0 ELSE 1 + ExcessBits(n \div 2)

\* The number nearest to the non-negative integer n, ties to even.
RoundToNumber(n) ==
    LET unit == TwoTo(ExcessBits(n))
        q == n \div unit
        r == n % unit
    IN IF 2 * r > unit \/ (2 * r = unit /\ q % 2 = 1)
       THEN (q + 1) * unit
       ELSE q * unit

\* a + b on numbers (non-negative multiples of one unit).
Plus(a, b) == RoundToNumber(a + b)

(***************************************************************************)
(* Model identifiers                                                       *)
(***************************************************************************)
UpperCase ==
    <<"A","B","C","D","E","F","G","H","I","J","K","L","M",
      "N","O","P","Q","R","S","T","U","V","W","X","Y","Z">>
LowerCase ==
    <<"a","b","c","d","e","f","g","h","i","j","k","l","m",
      "n","o","p","q","r","s","t","u","v","w","x","y","z">>

\* String.prototype.toLowerCase
ToLowerCase(s) ==
    [i \in 1..Len(s) |->
        IF \E k \in 1..26 : UpperCase[k] = s[i]
        THEN LowerCase[CHOOSE k \in 1..26 : UpperCase[k] = s[i]]
        ELSE s[i]]

\* String.prototype.includes
Includes(s, sub) ==
    \E i \in 0..(Len(s) - Len(sub)) : SubSeq(s, i + 1, i + Len(sub)) = sub

\* The filter callback with the identifier compared as written.
KeepsModelCaseSensitive(m, app) ==
    LET model == m.model IN
    IF app = "claude"
    THEN \/ Includes(model, <<"c","l","a","u","d","e">>)
         \/ Includes(model, <<"a","n","t","h","r","o","p","i","c">>)
         \/ Includes(model, <<"s","o","n","n","e","t">>)
         \/ Includes(model, <<"o","p","u","s">>)
         \/ Includes(model, <<"h","a","i","k","u">>)
    ELSE IF app = "codex"
    THEN \/ Includes(model, <<"g","p","t">>)
         \/ Includes(model, <<"o","1">>)
         \/ Includes(model, <<"o","3">>)
         \/ Includes(model, <<"o","4">>)
    ELSE IF app = "gemini"
    THEN Includes(model, <<"g","e","m","i","n","i">>)
    ELSE TRUE

\* The callback of allModels.filter.
KeepsModel(m, app) ==
    LET model == ToLowerCase(m.model) IN
    IF app = "claude"
    THEN \/ Includes(model, <<"c","l","a","u","d","e">>)
         \/ Includes(model, <<"a","n","t","h","r","o","p","i","c">>)
         \/ Includes(model, <<"s","o","n","n","e","t">>)
         \/ Includes(model, <<"o","p","u","s">>)
         \/ Includes(model, <<"h","a","i","k","u">>)
    ELSE IF app = "codex"
    THEN \/ Includes(model, <<"g","p","t">>)
         \/ Includes(model, <<"o","1">>)
         \/ Includes(model, <<"o","3">>)
         \/ Includes(model, <<"o","4">>)
    ELSE IF app = "gemini"
    THEN Includes(model, <<"g","e","m","i","n","i">>)
    ELSE TRUE

\* A removal loop that splices while it iterates: the item after a removed
\* one is never tested.
RECURSIVE FilterModelsSplicing(_, _)
FilterModelsSplicing(list, app) ==
    IF list = <<>> THEN <<>>
    ELSE IF KeepsModel(Head(list), app)
    THEN <<Head(list)>> \o FilterModelsSplicing(Tail(list), app)
    ELSE IF Len(list) = 1 THEN <<>>
    ELSE <<list[2]>> \o FilterModelsSplicing(SubSeq(list, 3, Len(list)), app)

\* allModels.filter(...)
RECURSIVE FilterModels(_, _)
FilterModels(list, app) ==
    IF list = <<>> THEN <<>>
    ELSE (IF KeepsModel(Head(list), app) THEN <<Head(list)>> ELSE <<>>)
             \o FilterModels(Tail(list), app)

(***************************************************************************)
(* periodUsage                                                             *)
(***************************************************************************)
ZeroUsage ==
    [requests |-> 0, inputTokens |-> 0, outputTokens |-> 0,
     cacheCreateTokens |-> 0, cacheReadTokens |-> 0, allTokens |-> 0, cost |-> 0]

\* The reducer with cost assigned instead of accumulated.
AddUsageCostOverwritten(acc, m) ==
    [requests |-> Plus(acc.requests, m.requests),
     inputTokens |-> Plus(acc.inputTokens, m.inputTokens),
     outputTokens |-> Plus(acc.outputTokens, m.outputTokens),
     cacheCreateTokens |-> Plus(acc.cacheCreateTokens, m.cacheCreateTokens),
     cacheReadTokens |-> Plus(acc.cacheReadTokens, m.cacheReadTokens),
     allTokens |-> Plus(acc.allTokens, m.allTokens),
     cost |-> m.costs.total]

\* The reducer callback.
AddUsage(acc, m) ==
    [requests |-> Plus(acc.requests, m.requests),
     inputTokens |-> Plus(acc.inputTokens, m.inputTokens),
     outputTokens |-> Plus(acc.outputTokens, m.outputTokens),
     cacheCreateTokens |-> Plus(acc.cacheCreateTokens, m.cacheCreateTokens),
     cacheReadTokens |-> Plus(acc.cacheReadTokens, m.cacheReadTokens),
     allTokens |-> Plus(acc.allTokens, m.allTokens),
     cost |-> Plus(acc.cost, m.costs.total)]

\* Array.prototype.reduce with an initial value.
RECURSIVE Reduce(_, _)
Reduce(list, acc) ==
    IF list = <<>> THEN acc ELSE Reduce(Tail(list), AddUsage(acc, Head(list)))

\* periodUsage yielding the zero record for an empty list.
PeriodUsageOfZeroForEmpty(list) == Reduce(list, ZeroUsage)

\* models.length > 0 ? models.reduce(...) : null
PeriodUsageOf(list) == IF Len(list) > 0 THEN Reduce(list, ZeroUsage) ELSE NULL

Array(items) == [t |-> "array", items |-> items]

\* modelStats?.data ?? []
AllModelsOf(stats) ==
    IF stats = NULL THEN <<>>
    ELSE IF Nullish(stats.data) THEN <<>>
    ELSE stats.data.items

\* The monthly cost summed over the models the app filter keeps.
AllModelsCostFiltered(allModels) ==
    LET kept == FilterModels(allModels, appId) IN
    IF kept = <<>> THEN 0 ELSE Reduce(kept, ZeroUsage).cost

\* allModels.reduce((sum, m) => sum + m.costs.total, 0)
RECURSIVE CostFrom(_, _)
CostFrom(list, sum) ==
    IF list = <<>> THEN sum
    ELSE CostFrom(Tail(list), Plus(sum, Head(list).costs.total))

AllModelsCost(allModels) == CostFrom(allModels, 0)

(***************************************************************************)
(* calcProgress and the limits card                                        *)
(*                                                                         *)
(* A percentage is a fraction num / den with den > 0, in lowest terms, so  *)
(* that current / limit * 100 is held exactly.                             *)
(***************************************************************************)
Abs(n) == IF n < 0 THEN -n ELSE n

RECURSIVE GCD(_, _)
GCD(a, b) == IF b = 0 THEN a ELSE GCD(b, a % b)

Fraction(n, d) ==
    LET g == GCD(Abs(n), Abs(d))
        sign == IF d < 0 THEN -1 ELSE 1
    IN [num |-> sign * (n \div g), den |-> sign * (d \div g)]

\* a <= b on fractions
AtMost(a, b) == a.num * b.den <= b.num * a.den

\* Math.min
MathMin(a, b) == IF AtMost(a, b) THEN a ELSE b

\* A falsy current or limit gives 0; else the percentage, at most 100.
calcProgress(current, limit) ==
    IF ~Truthy(current) \/ ~Truthy(limit) \/ limit = Num(0) THEN Fraction(0, 1)
    ELSE MathMin(Fraction(current.v * 100, limit.v), Fraction(100, 1))

\* Number.prototype.toFixed: the text of n with the given number of decimals.
ToFixed(n, digits) == [t |-> "decimal", of |-> n, digits |-> digits]

NotShown == [t |-> "notShown"]

\* cost?.toFixed(4) || "0"
CostText(cost) == IF Nullish(cost) THEN <<"0">> ELSE ToFixed(cost.v, 4)

\* A row "current / limit" with its bar; absent when the limit is undefined.
LimitRow(current, limit) ==
    IF limit = Undefined THEN NotShown
    ELSE [cost |-> CostText(current), limit |-> limit,
          width |-> calcProgress(current, limit)]

\* The first row of the card: the day's cost against its limit, or the
\* month's cost over all models.
PeriodCostRow(limits, p, total) ==
    IF p = "daily"
    THEN LimitRow(Get(limits, "currentDailyCost"), Get(limits, "dailyCostLimit"))
    ELSE [cost |-> ToFixed(total, 4), limit |-> Undefined, width |-> Undefined]

\* The limits card of the data view.
LimitsCardOf(loading, res, p, total) ==
    IF loading \/ res = NULL THEN NotShown
    ELSE IF ~res.success \/ ~Truthy(res.data) THEN NotShown
    ELSE LET limits == Get(res.data, "limits") IN
         IF ~Truthy(limits) THEN NotShown
         ELSE [periodCost |-> PeriodCostRow(limits, p, total),
               totalCost |-> LimitRow(Get(limits, "currentTotalCost"),
                                      Get(limits, "totalCostLimit"))]

\* What a render derives from result, modelStats, period and the app kind.
Derive(app) ==
    /\ allModelsCost' = AllModelsCost(AllModelsOf(modelStats))
    /\ models' = Array(FilterModels(AllModelsOf(modelStats), app))
    /\ periodUsage' = PeriodUsageOf(FilterModels(AllModelsOf(modelStats), app))
    /\ limitsCard' = LimitsCardOf(isLoading, result, period,
                                  AllModelsCost(AllModelsOf(modelStats)))

(***************************************************************************)
(* The derivation on every per-model result                                *)
(***************************************************************************)
Item(model, requests, inputTokens, outputTokens, cacheCreate, cacheRead, cost) ==
    [model |-> model, requests |-> requests,
     inputTokens |-> inputTokens, outputTokens |-> outputTokens,
     cacheCreateTokens |-> cacheCreate, cacheReadTokens |-> cacheRead,
     allTokens |-> inputTokens + outputTokens + cacheCreate + cacheRead,
     costs |-> [total |-> cost]]

Items ==
    { Item(<<"O","p","u","s">>, 1, 2, 1, 0, 1, 1),
      Item(<<"c","l","a","u","d","e","-","h","a","i","k","u">>, 2, 1, 0, 1, 0,
           TwoTo(MantissaBits)),
      Item(<<"s","o","n","n","e","t","-","o","4">>, 1, 0, 1, 0, 0, 2),
      Item(<<"g","p","t","-","4","o">>, 1, 1, 1, 0, 0, 3),
      Item(<<"G","e","m","i","n","i","-","o","1">>, 2, 0, 0, 1, 1, 1),
      Item(<<"l","l","a","m","a">>, 1, 1, 0, 0, 0, 2) }

ModelLists == UNION { [1..n -> Items] : n \in 0..MaxModels }

AllModelStats ==
    {NULL, Failure("denied")}
        \cup { [success |-> TRUE, data |-> Array(list), error |-> ""] :
               list \in ModelLists }

InitUsage ==
    /\ currentProvider = NULL
    /\ appId \in AppIds
    /\ modelStats \in AllModelStats
    /\ Constructed

\* The derivation a render makes from modelStats and appId.
RenderUsage ==
    /\ models = NotRendered
    /\ Derive(appId)
    /\ UNCHANGED <<currentProvider, appId, apiKey, baseUrl, thrown, isLoading,
                   result, modelStats, period, inflight, issued, lastApplied,
                   mounted, completedSinceEffect, progress>>

NextUsage == RenderUsage

SpecUsage == InitUsage /\ [][NextUsage]_vars

Rendered == models # NotRendered

\* The identifiers an app kind keeps; {<<>>} keeps everything.
Needles(app) ==
    CASE app = "claude" ->
           { <<"c","l","a","u","d","e">>, <<"a","n","t","h","r","o","p","i","c">>,
             <<"s","o","n","n","e","t">>, <<"o","p","u","s">>, <<"h","a","i","k","u">> }
      [] app = "codex" -> { <<"g","p","t">>, <<"o","1">>, <<"o","3">>, <<"o","4">> }
      [] app = "gemini" -> { <<"g","e","m","i","n","i">> }
      [] OTHER -> { <<>> }

\* Whether sub occurs in s, by position and length.
Occurs(sub, s) ==
    \E a \in 1..(Len(s) + 1) :
        /\ a + Len(sub) - 1 <= Len(s)
        /\ \A k \in 1..Len(sub) : s[a + k - 1] = sub[k]

Wanted(m, app) == \E needle \in Needles(app) : Occurs(needle, ToLowerCase(m.model))

\* C7: the filtered list is exactly the subsequence of the input, in its
\* order, of the items whose lower-cased identifier contains a needle of the
\* app kind; any other app kind keeps every item.
C7_FilterIsWantedSubsequence ==
    Rendered =>
        /\ models.items = SelectSeq(AllModelsOf(modelStats), LAMBDA m : Wanted(m, appId))
        /\ appId \notin {"claude", "codex", "gemini"}
              => models.items = AllModelsOf(modelStats)

\* C7 witness: for claude an upper-case "Opus" item is kept after an item
\* that is dropped.
C7_KeepsOpusDropsGpt ==
    /\ Rendered
    /\ appId = "claude"
    /\ Len(AllModelsOf(modelStats)) = 3
    /\ AllModelsOf(modelStats)[1].model = <<"g","p","t","-","4","o">>
    /\ AllModelsOf(modelStats)[2].model = <<"O","p","u","s">>
    /\ Len(models.items) = 2
    /\ models.items[1].model = <<"O","p","u","s">>

\* C8: filtering the filtered list again for the same app kind changes nothing.
C8_FilterIdempotent ==
    Rendered => FilterModels(models.items, appId) = models.items

\* C8 witness: the filter dropped some items and kept others.
C8_FilterDroppedSome ==
    /\ Rendered
    /\ Len(models.items) > 0
    /\ Len(models.items) < Len(AllModelsOf(modelStats))
    /\ FilterModels(models.items, appId) = models.items

UsageFields ==
    {"requests", "inputTokens", "outputTokens", "cacheCreateTokens",
     "cacheReadTokens", "allTokens", "cost"}

\* The field of an item that a periodUsage field sums.
ItemField(m, field) == IF field = "cost" THEN m.costs.total ELSE m[field]

\* The sum of a field over a list, added item by item in list order.
RECURSIVE SumInOrder(_, _)
SumInOrder(list, field) ==
    IF list = <<>> THEN 0
    ELSE Plus(SumInOrder(SubSeq(list, 1, Len(list) - 1), field),
              ItemField(list[Len(list)], field))

\* C9: periodUsage is absent exactly when the filtered list is empty;
\* otherwise each field is the sum of that field over the filtered items;
\* for a single item it is the item's fields.
C9_PeriodUsageIsSum ==
    Rendered =>
        /\ (periodUsage = NULL) <=> (models.items = <<>>)
        /\ models.items # <<>> =>
              /\ DOMAIN periodUsage = UsageFields
              /\ \A field \in UsageFields :
                    periodUsage[field] = SumInOrder(models.items, field)
        /\ Len(models.items) = 1 =>
              \A field \in UsageFields :
                    periodUsage[field] = ItemField(models.items[1], field)

\* C9 witness: two of three items pass the filter and periodUsage holds
\* their sums.
C9_SumOfTwoFiltered ==
    /\ Rendered
    /\ Len(AllModelsOf(modelStats)) = 3
    /\ Len(models.items) = 2
    /\ models.items[1] # models.items[2]
    /\ periodUsage # NULL
    /\ periodUsage.requests = models.items[1].requests + models.items[2].requests
    /\ periodUsage.cost = models.items[1].costs.total + models.items[2].costs.total

\* The reorderings of a list.
Reorderings(list) ==
    { [i \in 1..Len(list) |-> list[f[i]]] :
        f \in { g \in [1..Len(list) -> 1..Len(list)] :
                  \A i, j \in 1..Len(list) : g[i] = g[j] => i = j } }

\* The sum of a field over a list in unbounded integer arithmetic.
RECURSIVE ExactSum(_, _)
ExactSum(list, field) ==
    IF list = <<>> THEN 0
    ELSE ItemField(Head(list), field) + ExactSum(Tail(list), field)

\* C10 as claimed: aggregating any reordering of the list yields the same
\* record or the same absence.
C10_OrderIndependent ==
    Rendered =>
        \A reordered \in Reorderings(models.items) :
            PeriodUsageOf(reordered) = periodUsage

\* C10 as amended: absence is order-independent, and so is every field whose
\* sum needs no rounding.
C10_OrderIndependentWhenExact ==
    Rendered =>
        \A reordered \in Reorderings(models.items) :
            /\ (PeriodUsageOf(reordered) = NULL) <=> (periodUsage = NULL)
            /\ periodUsage # NULL =>
                  \A field \in UsageFields :
                      ExactSum(models.items, field) < TwoTo(MantissaBits)
                          => PeriodUsageOf(reordered)[field] = periodUsage[field]

\* C10 witness: three distinct items were aggregated and no field needed
\* rounding.
C10_ThreeDistinctExact ==
    /\ Rendered
    /\ Len(models.items) = 3
    /\ Cardinality({models.items[i] : i \in 1..3}) = 3
    /\ \A field \in UsageFields :
          ExactSum(models.items, field) < TwoTo(MantissaBits)

(***************************************************************************)
(* calcProgress on every pair of arguments                                 *)
(***************************************************************************)
Amounts == {-150, -100, -80, -5, -1, 0, 1, 5, 80, 100, 150}

ProgressArgs == {Undefined} \cup { Num(n) : n \in Amounts }

InitProgress ==
    /\ currentProvider = NULL
    /\ appId = "claude"
    /\ modelStats = NULL
    /\ Constructed

CallCalcProgress(current, limit) ==
    /\ progress = NotRendered
    /\ progress' = [current |-> current, limit |-> limit,
                    value |-> calcProgress(current, limit)]
    /\ UNCHANGED <<currentProvider, appId, apiKey, baseUrl, thrown, isLoading,
                   result, modelStats, period, inflight, issued, lastApplied,
                   mounted, completedSinceEffect, models, periodUsage,
                   allModelsCost, limitsCard>>

NextProgress == \E current, limit \in ProgressArgs : CallCalcProgress(current, limit)

SpecProgress == InitProgress /\ [][NextProgress]_vars

\* The argument is absent or zero.
AbsentOrZero(v) == v = Undefined \/ v = Num(0)

\* value = min(current / limit * 100, 100), for a limit other than 0
IsCappedPercentage(value, current, limit) ==
    LET below == IF limit > 0 THEN current <= limit ELSE current >= limit IN
    IF below THEN value.num * limit = current * 100 * value.den
    ELSE value = [num |-> 100, den |-> 1]

\* C11: calcProgress returns a number in [0, 100] for every pair of
\* arguments, negative ones included: 0 when either argument is absent or
\* zero, and otherwise min(current / limit * 100, 100).
C11_ProgressInRange ==
    progress # NotRendered =>
        /\ 0 <= progress.value.num
        /\ progress.value.num <= 100 * progress.value.den
        /\ (AbsentOrZero(progress.current) \/ AbsentOrZero(progress.limit))
              => progress.value = [num |-> 0, den |-> 1]
        /\ ~(AbsentOrZero(progress.current) \/ AbsentOrZero(progress.limit))
              => IsCappedPercentage(progress.value, progress.current.v,
                                    progress.limit.v)

(***************************************************************************)
(* The cost rows of the limits card                                        *)
(***************************************************************************)
Limits(currentDailyCost, dailyCostLimit) ==
    Obj({<<"currentDailyCost", currentDailyCost>>,
         <<"dailyCostLimit", dailyCostLimit>>,
         <<"currentTotalCost", Num(7)>>,
         <<"totalCostLimit", Num(9)>>})

CardResults ==
    { [success |-> TRUE, data |-> Obj({<<"limits", limits>>}), error |-> ""] :
      limits \in {Undefined, Limits(Num(3), Num(4)), Limits(Undefined, Num(4)),
                  Limits(Num(3), Undefined)} }

\* A component holding both results of a completed fetch pair.
InitCard ==
    /\ currentProvider = NULL
    /\ appId \in AppIds
    /\ apiKey = <<>>
    /\ baseUrl = <<>>
    /\ thrown = FALSE
    /\ isLoading = FALSE
    /\ result \in CardResults
    /\ modelStats \in AllModelStats
    /\ period \in Periods
    /\ inflight = {}
    /\ issued = 0
    /\ lastApplied = 0
    /\ mounted = FALSE
    /\ completedSinceEffect = FALSE
    /\ models = NotRendered
    /\ periodUsage = NotRendered
    /\ allModelsCost = NotRendered
    /\ limitsCard = NotRendered
    /\ progress = NotRendered

\* The render that follows a change of the appId prop.
SetAppId(app) ==
    /\ Rendered
    /\ app # appId
    /\ appId' = app
    /\ Derive(app)
    /\ UNCHANGED <<currentProvider, apiKey, baseUrl, thrown, isLoading, result,
                   modelStats, period, inflight, issued, lastApplied, mounted,
                   completedSinceEffect, progress>>

NextCard ==
    \/ RenderUsage
    \/ \E app \in AppIds : SetAppId(app)

SpecCard == InitCard /\ [][NextCard]_vars

\* The items the app kind wants, in the order of the list.
WantedOf(list, app) == SelectSeq(list, LAMBDA m : Wanted(m, app))

\* data.limits of the overview result
LimitsOf(res) == Get(res.data, "limits")

\* The costs a rendered component shows, against the results it holds.
CostsShown ==
    /\ allModelsCost = SumInOrder(AllModelsOf(modelStats), "cost")
    /\ periodUsage # NULL =>
          periodUsage.cost = SumInOrder(WantedOf(AllModelsOf(modelStats), appId),
                                        "cost")
    /\ (LimitsOf(result) = Undefined) <=> (limitsCard = NotShown)
    /\ (limitsCard # NotShown /\ period = "monthly") =>
          limitsCard.periodCost.cost = ToFixed(allModelsCost, 4)
    /\ (limitsCard # NotShown /\ period = "daily") =>
          LET current == Get(LimitsOf(result), "currentDailyCost") IN
          /\ (limitsCard.periodCost = NotShown)
                <=> (Get(LimitsOf(result), "dailyCostLimit") = Undefined)
          /\ limitsCard.periodCost # NotShown =>
                limitsCard.periodCost.cost =
                    IF current = Undefined THEN <<"0">> ELSE ToFixed(current.v, 4)

\* C13: the monthly cost shown is the sum of costs.total over all models of
\* the per-model result whatever the appId, and a change of appId leaves it
\* as it was; periodUsage.cost sums the models the app kind keeps; the daily
\* cost shown is limits.currentDailyCost of the overview result.
C13_MonthlyCostOverAllModels ==
    /\ [](Rendered => CostsShown)
    /\ [][(Rendered /\ appId' # appId) =>
             /\ allModelsCost' = allModelsCost
             /\ limitsCard' = limitsCard]_vars

\* C13 witness: a monthly card shows the cost of all models while the app
\* kind keeps only some of them.
C13_MonthlyCostDiffersFromPeriodUsage ==
    /\ Rendered
    /\ period = "monthly"
    /\ limitsCard # NotShown
    /\ limitsCard.periodCost.cost = ToFixed(allModelsCost, 4)
    /\ periodUsage # NULL
    /\ periodUsage.cost # allModelsCost

====
